---- MODULE Spec2Model ----
(***************************************************************************)
(* Post-edit quality hooks: typescript-quality-check.py (Prettier, ESLint, *)
(* tsc) and python-quality-check.py (ruff, basedpyright, bandit).          *)
(*                                                                         *)
(* Text is modelled character by character on TLC strings (Len, SubSeq and *)
(* \o act on strings), so substring tests, strip, split and the regular    *)
(* expressions of the parsers are computed as Python computes them.        *)
(* An optional report (str | None) is a sequence: <<>> is None and <<s>>   *)
(* is the string s.                                                        *)
(***************************************************************************)
EXTENDS Integers, Sequences, FiniteSets, TLC

VARIABLES
    pc,            \* position of the process / of the parser call
    hook,          \* "ts" | "py" | "none": which script runs
    stdin,         \* what the host wrote on standard input
    fs,            \* file system: [files, node_modules]
    file_path,     \* main()'s local file_path (<<>> before it is read)
    project_root,  \* main()'s local project_root (TS hook)
    reports,       \* what each check_* returned, in call order
    issues,        \* main()'s list issues
    invoked,       \* commands handed to subprocess.run, in order
    stdout,        \* lines printed on standard output
    stderr,        \* lines printed on the error stream
    exit_status,   \* <<>> while running, <<n>> once exited
    scenario,      \* what the external tool found (the parser's environment)
    output,        \* run_command's combined stdout + stderr
    exit_code,     \* run_command's exit code
    result         \* the parser's return value

vars == <<pc, hook, stdin, fs, file_path, project_root, reports, issues, invoked,
          stdout, stderr, exit_status, scenario, output, exit_code, result>>

hookVars == <<hook, stdin, fs, file_path, project_root, reports, issues, invoked,
              stdout, stderr, exit_status>>

-----------------------------------------------------------------------------
(* Python values and string methods *)

None == <<>>
Some(s) == <<s>>

\* Python truthiness of a str | None: None and "" are falsy.
Truthy(r) == r # None /\ r[1] # ""

Whitespace == {" ", "\n", "\t", "\r"}
Digits == {"0", "1", "2", "3", "4", "5", "6", "7", "8", "9"}
Upper == {"A", "B", "C", "D", "E", "F", "G", "H", "I", "J", "K", "L", "M",
          "N", "O", "P", "Q", "R", "S", "T", "U", "V", "W", "X", "Y", "Z"}
Lower == {"a", "b", "c", "d", "e", "f", "g", "h", "i", "j", "k", "l", "m",
          "n", "o", "p", "q", "r", "s", "t", "u", "v", "w", "x", "y", "z"}
\* the regex class \w
WordChars == Upper \cup Lower \cup Digits \cup {"_"}

Ch(s, i) == SubSeq(s, i, i)

\* s[i-1:] in Python terms
From(s, i) == SubSeq(s, i, Len(s))

\* s.startswith(sub, i-1)
StartsAt(s, sub, i) ==
    /\ i >= 1
    /\ i + Len(sub) - 1 <= Len(s)
    /\ SubSeq(s, i, i + Len(sub) - 1) = sub

\* sub in s
Contains(s, sub) == \E i \in 1..(Len(s) - Len(sub) + 1) : StartsAt(s, sub, i)

\* s.endswith(sub)
EndsWith(s, sub) == Len(sub) <= Len(s) /\ StartsAt(s, sub, Len(s) - Len(sub) + 1)

\* s.find(sub, i-1) + 1, and 0 when there is none
Find(s, sub, i) ==
    LET hits == {k \in i..(Len(s) - Len(sub) + 1) : StartsAt(s, sub, k)}
    IN  IF hits = {} THEN 0 ELSE CHOOSE k \in hits : \A j \in hits : k <= j

\* s.rfind(sub) + 1, and 0 when there is none
RFind(s, sub) ==
    LET hits == {k \in 1..(Len(s) - Len(sub) + 1) : StartsAt(s, sub, k)}
    IN  IF hits = {} THEN 0 ELSE CHOOSE k \in hits : \A j \in hits : k >= j

\* number of leading whitespace characters
LeadingWs(s) ==
    LET stops == {k \in 1..Len(s) : Ch(s, k) \notin Whitespace}
    IN  IF stops = {} THEN Len(s) ELSE (CHOOSE k \in stops : \A j \in stops : k <= j) - 1

\* number of trailing whitespace characters
TrailingWs(s) ==
    LET stops == {k \in 1..Len(s) : Ch(s, k) \notin Whitespace}
    IN  IF stops = {} THEN Len(s) ELSE Len(s) - (CHOOSE k \in stops : \A j \in stops : k >= j)

\* s.strip()
strip(s) ==
    IF LeadingWs(s) = Len(s) THEN "" ELSE SubSeq(s, LeadingWs(s) + 1, Len(s) - TrailingWs(s))

\* s.split(sep): never empty, "" splits to [""]
RECURSIVE split(_, _)
split(s, sep) ==
    LET k == Find(s, sep, 1)
    IN  IF k = 0 THEN <<s>>
        ELSE <<SubSeq(s, 1, k - 1)>> \o split(From(s, k + Len(sep)), sep)

\* sep.join(parts)
RECURSIVE join(_, _)
join(sep, parts) ==
    IF parts = <<>> THEN ""
    ELSE IF Len(parts) = 1 THEN parts[1]
    ELSE parts[1] \o sep \o join(sep, Tail(parts))

\* the last element of path.split("/")
LastSegment(path) == LET parts == split(path, "/") IN parts[Len(parts)]

DigitOf(d) == CASE d = 0 -> "0" [] d = 1 -> "1" [] d = 2 -> "2" [] d = 3 -> "3"
                [] d = 4 -> "4" [] d = 5 -> "5" [] d = 6 -> "6" [] d = 7 -> "7"
                [] d = 8 -> "8" [] d = 9 -> "9"

\* str(n) for n >= 0
RECURSIVE str(_)
str(n) == IF n < 10 THEN DigitOf(n) ELSE str(n \div 10) \o DigitOf(n % 10)

ValueOf(c) == CHOOSE d \in 0..9 : DigitOf(d) = c

\* int(s) for a string of decimal digits
RECURSIVE int(_)
int(s) == IF Len(s) = 0 THEN 0
          ELSE 10 * int(SubSeq(s, 1, Len(s) - 1)) + ValueOf(Ch(s, Len(s)))

\* length of the longest run of characters of class cls starting at position i
RunLen(s, i, cls) ==
    LET stops == {k \in i..Len(s) : Ch(s, k) \notin cls}
    IN  IF stops = {} THEN Len(s) - i + 1
        ELSE (CHOOSE k \in stops : \A j \in stops : k <= j) - i

Min(S) == CHOOSE k \in S : \A j \in S : k <= j
Max(S) == CHOOSE k \in S : \A j \in S : k >= j

\* " ".join(cmd)
CommandLine(cmd) == join(" ", cmd)

\* run_command's results when the process times out or cannot be started
TimedOut(cmd) == [output |-> "Command timed out: " \o CommandLine(cmd), exit_code |-> 1]
SpawnFailed(cmd) ==
    [output |-> "Error running " \o CommandLine(cmd) \o ": [Errno 2] No such file",
     exit_code |-> 1]

-----------------------------------------------------------------------------
(* python-quality-check.py: check_ruff *)

check_ruff_parse(out) ==
    IF Contains(out, "0 remaining") \/ Contains(out, "All checks passed")
    THEN None
    ELSE
      LET lines == split(strip(out), "\n")
          hits == {i \in 1..Len(lines) :
                      Contains(lines[i], "remaining") /\ Contains(lines[i], "fixed")}
      IN  IF Contains(out, "remaining") /\ hits # {}
          THEN Some("ruff: " \o strip(lines[Min(hits)]))
          ELSE IF strip(out) # "" /\ ~Contains(out, "All checks passed")
          THEN Some("ruff issues:\n" \o strip(out))
          ELSE None

\* "1 error" / "3 errors"
Plural(n, noun) == str(n) \o " " \o noun \o (IF n = 1 THEN "" ELSE "s")

MaxFixed == 2
MaxRemaining == 12

\* what ruff check --fix can leave behind for one file
RuffScenarios ==
    [kind : {"summary"}, diag : BOOLEAN, fixed : 0..MaxFixed, remaining : 0..MaxRemaining]
    \cup [kind : {"nofix"}, diag : {TRUE}, fixed : {0}, remaining : 1..MaxRemaining]
    \cup [kind : {"clean", "empty", "blank", "timeout", "spawn"},
          diag : {FALSE}, fixed : {0}, remaining : {0}]

RuffCommand == <<"uv", "run", "ruff", "check", "--fix", "/p/a.py">>

\* the fix-summary line ruff prints
RuffSummaryLine(sc) ==
    "Found " \o Plural(sc.fixed + sc.remaining, "error") \o " (" \o str(sc.fixed)
        \o " fixed, " \o str(sc.remaining) \o " remaining)."

RuffOutput(sc) ==
    LET diag == IF sc.diag THEN "a.py:1:8: F401 unused\n" ELSE ""
    IN  CASE sc.kind = "summary" -> diag \o RuffSummaryLine(sc) \o "\n"
          [] sc.kind = "nofix" -> diag \o "Found " \o Plural(sc.remaining, "error") \o ".\n"
          [] sc.kind = "clean" -> "All checks passed!\n"
          [] sc.kind = "empty" -> ""
          [] sc.kind = "blank" -> " \n"
          [] sc.kind = "timeout" -> TimedOut(RuffCommand).output
          [] sc.kind = "spawn" -> SpawnFailed(RuffCommand).output

-----------------------------------------------------------------------------
(* The parsers as processes of their own: a raw tool result comes in, the   *)
(* parser returns.                                                         *)

HookIdle ==
    /\ hook = "none"
    /\ stdin = <<>>
    /\ fs = <<>>
    /\ file_path = <<>>
    /\ project_root = <<>>
    /\ reports = <<>>
    /\ issues = <<>>
    /\ invoked = <<>>
    /\ stdout = <<>>
    /\ stderr = <<>>
    /\ exit_status = <<>>

InitRuff ==
    /\ HookIdle
    /\ pc = "check_ruff"
    /\ scenario \in RuffScenarios
    /\ output = RuffOutput(scenario)
    /\ exit_code = IF scenario.kind \in {"clean", "empty", "blank"} THEN 0 ELSE 1
    /\ result = None

CallRuff ==
    /\ pc = "check_ruff"
    /\ result' = check_ruff_parse(output)
    /\ pc' = "returned"
    /\ UNCHANGED <<hookVars, scenario, output, exit_code>>

NextRuff == CallRuff

SpecRuff == InitRuff /\ [][NextRuff]_vars

\* C10: check_ruff never reports a run with remaining issues as clean: a
\* fix-summary line with N >= 1 remaining (and no all-clear marker) is returned
\* as "ruff: <line>", and absence is returned only for empty or whitespace
\* output, the all-clear marker, or N = 0 remaining.
C10_RemainingReported ==
    (pc = "returned" /\ hook = "none") =>
        /\ (scenario.kind = "summary" /\ scenario.remaining >= 1)
              => result = Some("ruff: " \o RuffSummaryLine(scenario))
        /\ result = None =>
              \/ strip(output) = ""
              \/ scenario.kind = "clean"
              \/ (scenario.kind = "summary" /\ scenario.remaining = 0)

-----------------------------------------------------------------------------
(* python-quality-check.py: check_basedpyright *)

\* re.match(r"\s+.+:\d+:\d+ - <level>:", line)
MarkerMatch(line, level) ==
    /\ Len(line) >= 1
    /\ Ch(line, 1) \in Whitespace
    /\ \E k \in 3..Len(line) :
          /\ Ch(line, k) = ":"
          /\ LET d1 == RunLen(line, k + 1, Digits)
                 d2 == RunLen(line, k + 2 + d1, Digits)
             IN  /\ d1 >= 1
                 /\ Ch(line, k + 1 + d1) = ":"
                 /\ d2 >= 1
                 /\ StartsAt(line, " - " \o level \o ":", k + 2 + d1 + d2)

is_error(line) == MarkerMatch(line, "error")

is_warning(line) == MarkerMatch(line, "warning")

\* re.match(r"\s{4,}[A-Z\"]", line.strip() and line)
is_context(line) ==
    LET arg == IF strip(line) = "" THEN "" ELSE line
    IN  /\ LeadingWs(arg) >= 4
        /\ Ch(arg, LeadingWs(arg) + 1) \in Upper \cup {"\""}

\* the loop "for line in reversed(lines)": the last line with both tokens
FindSummary(lines) ==
    LET hits == {i \in 1..Len(lines) :
                    Contains(lines[i], " error") /\ Contains(lines[i], " warning")}
    IN  IF hits = {} THEN None ELSE Some(strip(lines[Max(hits)]))

\* errors after "if current_error_lines: errors.append(...)"
Flush(current, errors) ==
    IF current # <<>> THEN Append(errors, join("\n", current)) ELSE errors

\* a mutant of ScanLines: a warning-marker line leaves the open block open
RECURSIVE ScanLinesWarningKeepsBlock(_, _, _, _)
ScanLinesWarningKeepsBlock(lines, i, current, errors) ==
    IF i > Len(lines) THEN Flush(current, errors)
    ELSE IF is_error(lines[i])
         THEN ScanLinesWarningKeepsBlock(lines, i + 1, <<lines[i]>>, Flush(current, errors))
    ELSE IF is_warning(lines[i])
         THEN ScanLinesWarningKeepsBlock(lines, i + 1, current, errors)
    ELSE IF is_context(lines[i]) /\ current # <<>>
         THEN ScanLinesWarningKeepsBlock(lines, i + 1, Append(current, lines[i]), errors)
    ELSE ScanLinesWarningKeepsBlock(lines, i + 1, <<>>, Flush(current, errors))

\* the loop "for line in lines" from line i on, and the flush after it
RECURSIVE ScanLines(_, _, _, _)
ScanLines(lines, i, current, errors) ==
    IF i > Len(lines) THEN Flush(current, errors)
    ELSE IF is_error(lines[i])
         THEN ScanLines(lines, i + 1, <<lines[i]>>, Flush(current, errors))
    ELSE IF is_warning(lines[i])
         THEN ScanLines(lines, i + 1, <<>>, Flush(current, errors))
    ELSE IF is_context(lines[i]) /\ current # <<>>
         THEN ScanLines(lines, i + 1, Append(current, lines[i]), errors)
    ELSE ScanLines(lines, i + 1, <<>>, Flush(current, errors))

\* if "0 error" in summary and "0 warning" in summary
NoIssues(summary) == Contains(summary, "0 error") /\ Contains(summary, "0 warning")

check_basedpyright_parse(out) ==
    LET lines == split(strip(out), "\n")
        summary == FindSummary(lines)
    IN  IF ~Truthy(summary) THEN None
        ELSE IF NoIssues(summary[1]) THEN None
        ELSE LET errors == ScanLines(lines, 1, <<>>, <<>>)
             IN  IF errors # <<>>
                 THEN Some(join("\n", errors) \o "\n" \o summary[1])
                 ELSE summary

MaxCount == 11
MaxLines == 4

LineKinds == {"error", "warning", "context", "blank", "text"}

\* n copies of x
Repeat(x, n) == [i \in 1..n |-> x]

\* sequences over S of length at most n
SeqUpTo(S, n) == UNION {[1..k -> S] : k \in 0..n}

\* what basedpyright can print for one file: the diagnostics below the file
\* header line, or a run that never produced a summary
PyrightScenarios ==
    [kind : {"run"},
     body : {Repeat("error", e) \o Repeat("warning", w) : e \in 0..MaxCount, w \in 0..MaxCount}
            \cup SeqUpTo(LineKinds, MaxLines)]
    \cup [kind : {"timeout", "spawn", "empty"}, body : {<<>>}]

PyrightCommand == <<"uv", "run", "basedpyright", "/p/a.py">>

\* the i-th line below the header line; it is line i + 1 of the file report
PyrightLine(kind, i) ==
    CASE kind = "error" -> "  /p/a.py:" \o str(i) \o ":5 - error: Bad type (reportX)"
      [] kind = "warning" -> "  /p/a.py:" \o str(i) \o ":1 - warning: Unused (reportY)"
      [] kind = "context" ->
            IF i % 2 = 1 THEN "    Type of " \o str(i) \o " is \"int\""
            ELSE "      \"int\" is not \"str\" " \o str(i)
      [] kind = "blank" -> ""
      [] kind = "text" -> "  see line " \o str(i)

CountOf(body, kind) == Cardinality({i \in 1..Len(body) : body[i] = kind})

PyrightSummaryLine(body) ==
    Plural(CountOf(body, "error"), "error") \o ", "
        \o Plural(CountOf(body, "warning"), "warning") \o ", 0 notes "

PyrightOutput(sc) ==
    CASE sc.kind = "run" ->
            (IF sc.body = <<>> THEN ""
             ELSE "/p/a.py\n"
                  \o join("\n", [i \in 1..Len(sc.body) |-> PyrightLine(sc.body[i], i)])
                  \o "\n")
            \o PyrightSummaryLine(sc.body) \o "\n"
      [] sc.kind = "timeout" -> TimedOut(PyrightCommand).output
      [] sc.kind = "spawn" -> SpawnFailed(PyrightCommand).output
      [] sc.kind = "empty" -> ""

InitBasedpyright ==
    /\ HookIdle
    /\ pc = "check_basedpyright"
    /\ scenario \in PyrightScenarios
    /\ output = PyrightOutput(scenario)
    /\ exit_code = IF scenario.kind = "run" /\ CountOf(scenario.body, "error") = 0
                   THEN 0 ELSE 1
    /\ result = None

CallBasedpyright ==
    /\ pc = "check_basedpyright"
    /\ result' = check_basedpyright_parse(output)
    /\ pc' = "returned"
    /\ UNCHANGED <<hookVars, scenario, output, exit_code>>

NextBasedpyright == CallBasedpyright

SpecBasedpyright == InitBasedpyright /\ [][NextBasedpyright]_vars

\* the last line of a report
LastLine(text) == LET ls == split(text, "\n") IN ls[Len(ls)]

\* C3: check_basedpyright returns absence exactly when there is no summary
\* line or the summary reports zero errors and zero warnings; for every
\* summary with E > 0 or W > 0 it returns a report whose last line is the
\* summary line.
C3_AbsentIffNoIssues ==
    pc = "returned" =>
        LET hasSummary == scenario.kind = "run"
            e == CountOf(scenario.body, "error")
            w == CountOf(scenario.body, "warning")
        IN  /\ result = None <=> (~hasSummary \/ (e = 0 /\ w = 0))
            /\ (hasSummary /\ (e > 0 \/ w > 0)) =>
                  /\ result # None
                  /\ LastLine(result[1]) = strip(PyrightSummaryLine(scenario.body))

\* indices of S in ascending order
RECURSIVE Ascending(_)
Ascending(S) == IF S = {} THEN <<>> ELSE <<Min(S)>> \o Ascending(S \ {Min(S)})

\* the block an error-marker line at i opens: the line and the continuation
\* lines that directly and contiguously follow it
ExpectedBlock(body, i) ==
    LET last == Max({j \in i..Len(body) : \A k \in (i + 1)..j : body[k] = "context"})
    IN  join("\n", [k \in 1..(last - i + 1) |-> PyrightLine(body[i + k - 1], i + k - 1)])

ExpectedBlocks(body) ==
    LET idx == Ascending({i \in 1..Len(body) : body[i] = "error"})
    IN  [n \in 1..Len(idx) |-> ExpectedBlock(body, idx[n])]

\* C9: when the line scan runs, the report is one block per error-marker line,
\* in order, each the marker line followed by exactly the continuation lines
\* contiguous with it (a warning-marker or other line closes the block, a block
\* open at the end of input is emitted), then the summary line; no
\* warning-marker line appears in it.
C9_BlocksFollowErrorMarkers ==
    (pc = "returned" /\ result # None) =>
        LET body == scenario.body
            blocks == ExpectedBlocks(body)
            summary == strip(PyrightSummaryLine(body))
        IN  /\ result[1] = IF blocks = <<>> THEN summary
                           ELSE join("\n", blocks) \o "\n" \o summary
            /\ \A i \in 1..Len(body) :
                  body[i] = "warning" => ~Contains(result[1], PyrightLine("warning", i))

\* an error block with a continuation, a warning with a continuation that must
\* not be taken, and a report
C9_Witness ==
    /\ pc = "returned"
    /\ scenario.kind = "run"
    /\ scenario.body = <<"error", "context", "warning", "context">>
    /\ result = Some(PyrightLine("error", 1) \o "\n" \o PyrightLine("context", 2)
                     \o "\n1 error, 1 warning, 0 notes")

-----------------------------------------------------------------------------
(* python-quality-check.py: check_bandit *)

SeverityWindow == 5

\* lines[a-1:b-1] in Python terms: the slice stops at the end of the list
ListSlice(lines, a, b) ==
    LET last == IF b < Len(lines) THEN b ELSE Len(lines)
    IN  IF last < a THEN <<>> ELSE SubSeq(lines, a, last)

\* any(level in sev_line for level in ["Low:", "Medium:", "High:"])
HasSeverityLabel(sev_line) ==
    \E level \in {"Low:", "Medium:", "High:"} : Contains(sev_line, level)

\* a mutant of SeverityEntry: the test for a count of 0 left out
SeverityEntryKeepsZero(sev_line) ==
    IF HasSeverityLabel(sev_line)
    THEN LET parts == split(strip(sev_line), ":")
         IN  IF Len(parts) = 2
             THEN <<strip(parts[1]) \o ": " \o strip(parts[2])>>
             ELSE <<>>
    ELSE <<>>

\* the entries one window line adds to issues: none or one
SeverityEntry(sev_line) ==
    IF HasSeverityLabel(sev_line) /\ ~EndsWith(strip(sev_line), ": 0")
    THEN LET parts == split(strip(sev_line), ":")
         IN  IF Len(parts) = 2
             THEN <<strip(parts[1]) \o ": " \o strip(parts[2])>>
             ELSE <<>>
    ELSE <<>>

\* issues after the loop over severity_info
RECURSIVE SeverityIssues(_)
SeverityIssues(severity_info) ==
    IF severity_info = <<>> THEN <<>>
    ELSE SeverityEntry(Head(severity_info)) \o SeverityIssues(Tail(severity_info))

\* lines.index(line) + 1
IndexOf(lines, line) == Min({j \in 1..Len(lines) : lines[j] = line})

\* the issues found below the marker line at position i
IssuesAt(lines, i) ==
    LET idx == IndexOf(lines, lines[i])
    IN  SeverityIssues(ListSlice(lines, idx, idx + SeverityWindow - 1))

check_bandit_parse(out, code) ==
    IF code = 0 \/ strip(out) = "" THEN None
    ELSE
      LET lines == split(strip(out), "\n")
          hits == {i \in 1..Len(lines) :
                      /\ Contains(lines[i], "Total issues (by severity):")
                      /\ IssuesAt(lines, i) # <<>>}
      IN  IF hits # {}
          THEN Some("bandit: " \o join(", ", IssuesAt(lines, Min(hits))))
          ELSE IF Contains(out, "Issue:")
          THEN Some("bandit: Security issues detected")
          ELSE None

MaxSeverity == 10

\* what bandit -q can print for one file
BanditScenarios ==
    [kind : {"run"}, listed : BOOLEAN, code : {0, 1},
     low : 0..MaxSeverity, medium : 0..MaxSeverity, high : 0..MaxSeverity]
    \cup [kind : {"nometrics"}, listed : BOOLEAN, code : {0, 1},
          low : {0}, medium : {0}, high : {0}]
    \cup [kind : {"timeout", "spawn", "empty"}, listed : {FALSE}, code : {1},
          low : {0}, medium : {0}, high : {0}]

BanditCommand == <<"uv", "run", "bandit", "-q", "/p/a.py">>

BanditOutput(sc) ==
    LET listing == IF sc.listed
                   THEN "Test results:\n>> Issue: [B101:assert_used] Use of assert.\n"
                        \o "   Severity: Low   Confidence: High\n"
                   ELSE ""
    IN  CASE sc.kind = "run" ->
                listing \o "Run metrics:\n\tTotal issues (by severity):\n"
                \o "\t\tUndefined: 0\n"
                \o "\t\tLow: " \o str(sc.low) \o "\n"
                \o "\t\tMedium: " \o str(sc.medium) \o "\n"
                \o "\t\tHigh: " \o str(sc.high) \o "\n"
                \o "\tTotal issues (by confidence):\n"
                \o "\t\tUndefined: 0\n"
                \o "\t\tLow: 0\n"
                \o "\t\tMedium: 0\n"
                \o "\t\tHigh: " \o str(sc.low + sc.medium + sc.high) \o "\n"
          [] sc.kind = "nometrics" -> listing \o "Files skipped (0):\n"
          [] sc.kind = "timeout" -> TimedOut(BanditCommand).output
          [] sc.kind = "spawn" -> SpawnFailed(BanditCommand).output
          [] sc.kind = "empty" -> ""

InitBandit ==
    /\ HookIdle
    /\ pc = "check_bandit"
    /\ scenario \in BanditScenarios
    /\ output = BanditOutput(scenario)
    /\ exit_code = scenario.code
    /\ result = None

CallBandit ==
    /\ pc = "check_bandit"
    /\ result' = check_bandit_parse(output, exit_code)
    /\ pc' = "returned"
    /\ UNCHANGED <<hookVars, scenario, output, exit_code>>

NextBandit == CallBandit

SpecBandit == InitBandit /\ [][NextBandit]_vars

\* "<Severity>: <count>" for the severities with a non-zero count, in the
\* order bandit prints them
NonZeroSeverities(sc) ==
    (IF sc.low # 0 THEN <<"Low: " \o str(sc.low)>> ELSE <<>>)
    \o (IF sc.medium # 0 THEN <<"Medium: " \o str(sc.medium)>> ELSE <<>>)
    \o (IF sc.high # 0 THEN <<"High: " \o str(sc.high)>> ELSE <<>>)

\* C6 as stated: with a nonzero exit code and the severity marker, for all
\* counts of Low, Medium and High the result is "bandit: " followed by the
\* comma-joined entries of exactly the severities whose count is non-zero.
C6_AllCounts ==
    (pc = "returned" /\ scenario.kind = "run" /\ exit_code # 0) =>
        result = Some("bandit: " \o join(", ", NonZeroSeverities(scenario)))

\* C6 as amended: with a nonzero exit code and the severity marker, whenever at
\* least one of Low, Medium and High is non-zero the result is "bandit: "
\* followed by the comma-joined entries of exactly the non-zero severities in
\* the order they appear; when all three are zero no severity line is
\* produced: the result is the generic line if the output holds "Issue:" and
\* absence otherwise.
C6_NonZeroSeverities ==
    (pc = "returned" /\ scenario.kind = "run" /\ exit_code # 0) =>
        IF NonZeroSeverities(scenario) # <<>>
        THEN result = Some("bandit: " \o join(", ", NonZeroSeverities(scenario)))
        ELSE result = IF scenario.listed
                      THEN Some("bandit: Security issues detected")
                      ELSE None

\* Low = 0, Medium = 2, High = 0 lists only "Medium: 2"
C6_Witness ==
    /\ pc = "returned"
    /\ scenario.kind = "run"
    /\ exit_code = 1
    /\ scenario.low = 0 /\ scenario.medium = 2 /\ scenario.high = 0
    /\ result = Some("bandit: Medium: 2")

-----------------------------------------------------------------------------
(* typescript-quality-check.py: parse_prettier_output *)

\* f"{n}" for an int
fmt(n) == IF n < 0 THEN "-" \o str(0 - n) ELSE str(n)

\* length of the longest run of characters outside excl starting at position i
RunLenNot(s, i, excl) ==
    LET stops == {k \in i..Len(s) : Ch(s, k) \in excl}
    IN  IF stops = {} THEN Len(s) - i + 1 ELSE Min(stops) - i

\* re.search(r"\[warn\] (.+)$", output, re.MULTILINE): group 1, or None
WarnMatch(out) ==
    LET hits == {i \in 1..Len(out) :
                    /\ StartsAt(out, "[warn] ", i)
                    /\ RunLenNot(out, i + 7, {"\n"}) >= 1}
    IN  IF hits = {} THEN None
        ELSE Some(SubSeq(out, Min(hits) + 7,
                         Min(hits) + 6 + RunLenNot(out, Min(hits) + 7, {"\n"})))

\* " \((\d+):(\d+)\)" at position p: the two numbers, or None
PositionAt(s, p) ==
    LET d1 == RunLen(s, p + 2, Digits)
        d2 == RunLen(s, p + 3 + d1, Digits)
    IN  IF /\ StartsAt(s, " (", p)
           /\ d1 >= 1
           /\ Ch(s, p + 2 + d1) = ":"
           /\ d2 >= 1
           /\ Ch(s, p + 3 + d1 + d2) = ")"
        THEN Some([line |-> SubSeq(s, p + 2, p + 1 + d1),
                   col |-> SubSeq(s, p + 3 + d1, p + 2 + d1 + d2)])
        ELSE None

\* r"\[error\] ([^:]+): (\w+): (.+?) \((\d+):(\d+)\)" matched at position i:
\* the groups, or None
ErrorPatternAt(s, i) ==
    LET a == i + 8
        n1 == RunLenNot(s, a, {":"})
        b == a + n1 + 2
        n2 == RunLen(s, b, WordChars)
        c == b + n2 + 2
        ends == {e \in c..(c + RunLenNot(s, c, {"\n"}) - 1) : PositionAt(s, e + 1) # None}
    IN  IF /\ StartsAt(s, "[error] ", i)
           /\ n1 >= 1
           /\ StartsAt(s, ": ", a + n1)
           /\ n2 >= 1
           /\ StartsAt(s, ": ", b + n2)
           /\ ends # {}
        THEN Some([filepath |-> SubSeq(s, a, a + n1 - 1),
                   error_type |-> SubSeq(s, b, b + n2 - 1),
                   error_msg |-> SubSeq(s, c, Min(ends)),
                   line |-> PositionAt(s, Min(ends) + 1)[1].line,
                   col |-> PositionAt(s, Min(ends) + 1)[1].col])
        ELSE None

\* re.search(error_pattern, output): the leftmost match
ErrorPatternSearch(out) ==
    LET hits == {i \in 1..Len(out) : ErrorPatternAt(out, i) # None}
    IN  IF hits = {} THEN None ELSE ErrorPatternAt(out, Min(hits))

\* re.search(r"\[error\] ([^\s:]+)", output): group 1, or None
ErrorFileMatch(out) ==
    LET excl == Whitespace \cup {":"}
        hits == {i \in 1..Len(out) :
                    StartsAt(out, "[error] ", i) /\ RunLenNot(out, i + 8, excl) >= 1}
    IN  IF hits = {} THEN None
        ELSE Some(SubSeq(out, Min(hits) + 8,
                         Min(hits) + 7 + RunLenNot(out, Min(hits) + 8, excl)))

UnexpectedExitCode(code) == Some("Prettier: Unexpected exit code " \o fmt(code))

parse_prettier_output(out, code) ==
    IF code = 0 THEN None
    ELSE IF code = 1
    THEN IF WarnMatch(out) # None
         THEN Some("Prettier: Formatting needed in "
                   \o LastSegment(strip(WarnMatch(out)[1])) \o " (--write failed?)")
         ELSE Some("Prettier: Formatting issues detected")
    ELSE IF code = 2
    THEN LET match == ErrorPatternSearch(out)
         IN  IF match # None
             THEN Some("Prettier: Syntax error at "
                       \o LastSegment(strip(match[1].filepath))
                       \o ":" \o match[1].line \o ":" \o match[1].col \o "\n"
                       \o "  " \o strip(match[1].error_type) \o ": "
                       \o strip(match[1].error_msg))
             ELSE IF Contains(out, "[error]")
             THEN IF ErrorFileMatch(out) # None
                  THEN Some("Prettier: Syntax error in "
                            \o LastSegment(ErrorFileMatch(out)[1]))
                  ELSE Some("Prettier: Syntax error detected")
             ELSE UnexpectedExitCode(code)
    ELSE UnexpectedExitCode(code)

MaxExitCode == 5

PrettierCommand == <<"npx", "prettier", "--write", "src/app.ts">>

\* texts prettier --write (or the runner, in its place) can produce
PrettierOutputs ==
    {"",
     "src/app.ts 20ms\n",
     "[warn] src/app.ts\n[warn] Code style issues found. Run Prettier to fix.\n",
     "[warn] \n",
     "[error] src/app.ts: SyntaxError: Unexpected token (12:4)\n",
     "[error] src/app.ts: SyntaxError: Unexpected token, expected \"}\" (3:10)\n[error]   2 | a (1:1)\n",
     "[error] No parser could be inferred for file: /p/src/app.ts\n",
     "[error] src/app.ts: broken\n",
     "[error] : Invalid configuration\n",
     "[error]\n",
     "Usage: prettier [options] [file/dir/glob ...]\n",
     TimedOut(PrettierCommand).output,
     SpawnFailed(PrettierCommand).output}

InitPrettier ==
    /\ HookIdle
    /\ pc = "parse_prettier_output"
    /\ scenario = "prettier"
    /\ output \in PrettierOutputs
    /\ exit_code \in -1..MaxExitCode
    /\ result = None

CallPrettier ==
    /\ pc = "parse_prettier_output"
    /\ result' = parse_prettier_output(output, exit_code)
    /\ pc' = "returned"
    /\ UNCHANGED <<hookVars, scenario, output, exit_code>>

NextPrettier == CallPrettier

SpecPrettier == InitPrettier /\ [][NextPrettier]_vars

\* C4: the result class of parse_prettier_output is determined by the exit
\* code for every output text: absence exactly for exit code 0, a single
\* formatting line for 1, a "Syntax error" report for 2, and the line
\* "Prettier: Unexpected exit code N" only for exit codes other than 0, 1, 2.
C4_ClassByExitCode ==
    pc = "returned" =>
        /\ result = None <=> exit_code = 0
        /\ exit_code = 1 =>
              /\ StartsAt(result[1], "Prettier: Formatting ", 1)
              /\ ~Contains(result[1], "\n")
        /\ exit_code = 2 => StartsAt(result[1], "Prettier: Syntax error ", 1)
        /\ (result # None /\ StartsAt(result[1], "Prettier: Unexpected exit code ", 1))
              => exit_code \notin {0, 1, 2}

-----------------------------------------------------------------------------
(* typescript-quality-check.py: parse_eslint_output *)

\* TLC's strings are ASCII: "#" stands for U+2716 (heavy multiplication x) of
\* ESLint's summary line and "x" for U+00D7 (multiplication sign) of the report.
Cross == "#"
Times == "x"

\* the regex class [\w@/-]
RuleChars == WordChars \cup {"@", "/", "-"}

\* length of the longest run of characters of class cls ending at position t
RunLenBack(s, t, cls) ==
    LET stops == {k \in 1..t : Ch(s, k) \notin cls}
    IN  IF stops = {} THEN t ELSE t - Max(stops)

\* 1 when the character at position p is c (an optional "c?" that is taken)
Opt(s, p, c) == IF Ch(s, p) = c THEN 1 ELSE 0

\* summary_pattern matched at position i: the three numbers, or None
SummaryAt(s, i) ==
    LET a == i + Len(Cross) + 1
        n1 == RunLen(s, a, Digits)
        b == a + n1 + Len(" problem")
        c == b + Opt(s, b, "s") + Len(" (")
        n2 == RunLen(s, c, Digits)
        d == c + n2 + Len(" error")
        e == d + Opt(s, d, "s") + Len(", ")
        n3 == RunLen(s, e, Digits)
        f == e + n3 + Len(" warning")
    IN  IF /\ StartsAt(s, Cross \o " ", i)
           /\ n1 >= 1
           /\ StartsAt(s, " problem", a + n1)
           /\ StartsAt(s, " (", b + Opt(s, b, "s"))
           /\ n2 >= 1
           /\ StartsAt(s, " error", c + n2)
           /\ StartsAt(s, ", ", d + Opt(s, d, "s"))
           /\ n3 >= 1
           /\ StartsAt(s, " warning", e + n3)
           /\ Ch(s, f + Opt(s, f, "s")) = ")"
        THEN Some([total |-> int(SubSeq(s, a, a + n1 - 1)),
                   errors |-> int(SubSeq(s, c, c + n2 - 1)),
                   warnings |-> int(SubSeq(s, e, e + n3 - 1))])
        ELSE None

\* re.search(summary_pattern, output): the leftmost match
SummarySearch(out) ==
    LET hits == {i \in 1..Len(out) : SummaryAt(out, i) # None}
    IN  IF hits = {} THEN None ELSE SummaryAt(out, Min(hits))

\* the filename loop: the first non-empty line that does not start with " "
EslintFilename(out) ==
    LET lines == split(out, "\n")
        hits == {i \in 1..Len(lines) : strip(lines[i]) # "" /\ ~StartsAt(lines[i], " ", 1)}
    IN  IF hits = {} THEN None ELSE Some(LastSegment(strip(lines[Min(hits)])))

\* re.match(issue_pattern, line): groups 1 and 5, or None.  The rule is the
\* last whitespace-delimited token, the message what lies between the level
\* and the rule (at least one character between two whitespace characters).
IssueRow(line) ==
    LET p == LeadingWs(line) + 1
        d1 == RunLen(line, p, Digits)
        d2 == RunLen(line, p + d1 + 1, Digits)
        q == p + d1 + 1 + d2 + RunLen(line, p + d1 + 1 + d2, Whitespace)
        lvl == IF StartsAt(line, "warning", q) THEN Len("warning")
               ELSE IF StartsAt(line, "error", q) THEN Len("error") ELSE 0
        r == q + lvl
        t == Len(line) - TrailingWs(line)
        g == t - RunLenBack(line, t, RuleChars) + 1
    IN  IF /\ LeadingWs(line) >= 1
           /\ d1 >= 1
           /\ Ch(line, p + d1) = ":"
           /\ d2 >= 1
           /\ RunLen(line, p + d1 + 1 + d2, Whitespace) >= 1
           /\ lvl > 0
           /\ Ch(line, r) \in Whitespace
           /\ g <= t
           /\ g - r >= 3
           /\ Ch(line, g - 1) \in Whitespace
        THEN Some([line_num |-> SubSeq(line, p, p + d1 - 1), rule |-> SubSeq(line, g, t)])
        ELSE None

\* issues_by_rule[rule].append(line_num) on an insertion-ordered dict
AddIssue(by_rule, rule, line_num) ==
    IF \E k \in 1..Len(by_rule) : by_rule[k].rule = rule
    THEN LET k == CHOOSE k \in 1..Len(by_rule) : by_rule[k].rule = rule
         IN  [by_rule EXCEPT ![k].lines = Append(@, line_num)]
    ELSE Append(by_rule, [rule |-> rule, lines |-> <<line_num>>])

\* the loop "for line in output.split('\n')" from line i on
RECURSIVE CollectIssues(_, _, _)
CollectIssues(lines, i, by_rule) ==
    IF i > Len(lines) THEN by_rule
    ELSE LET match == IssueRow(lines[i])
         IN  CollectIssues(lines, i + 1,
                           IF match # None
                           THEN AddIssue(by_rule, match[1].rule, match[1].line_num)
                           ELSE by_rule)

\* a mutant of InsertByCount: ascending counts (key=len without the minus)
InsertByCountAscending(sorted, item) ==
    LET n == Cardinality({k \in 1..Len(sorted) : Len(sorted[k].lines) <= Len(item.lines)})
    IN  SubSeq(sorted, 1, n) \o <<item>> \o SubSeq(sorted, n + 1, Len(sorted))

\* one step of the stable sort by key -len(lines): item goes after every
\* element that has at least as many lines
InsertByCount(sorted, item) ==
    LET n == Cardinality({k \in 1..Len(sorted) : Len(sorted[k].lines) >= Len(item.lines)})
    IN  SubSeq(sorted, 1, n) \o <<item>> \o SubSeq(sorted, n + 1, Len(sorted))

\* sorted(issues_by_rule.items(), key=lambda x: -len(x[1]))
RECURSIVE SortedByCount(_)
SortedByCount(items) ==
    IF items = <<>> THEN <<>>
    ELSE InsertByCount(SortedByCount(SubSeq(items, 1, Len(items) - 1)), items[Len(items)])

\* f"  - {rule}: {count}x (lines {lines_str})"
RuleLine(item) ==
    "  - " \o item.rule \o ": " \o str(Len(item.lines)) \o Times
        \o " (lines " \o join(", ", item.lines) \o ")"

\* "E error(s), W warning(s)" / "E error(s)" / "W warning(s)"
EslintCounts(errors, warnings) ==
    IF errors > 0 /\ warnings > 0
    THEN "ESLint: " \o str(errors) \o " error(s), " \o str(warnings) \o " warning(s)"
    ELSE IF errors > 0 THEN "ESLint: " \o str(errors) \o " error(s)"
    ELSE "ESLint: " \o str(warnings) \o " warning(s)"

parse_eslint_output(out) ==
    IF strip(out) = "" THEN None
    ELSE IF Contains(out, Cross \o " 0 problems") THEN None
    ELSE LET summary_match == SummarySearch(out)
         IN  IF summary_match = None THEN None
             ELSE IF summary_match[1].total = 0 THEN None
             ELSE
               LET errors == summary_match[1].errors
                   warnings == summary_match[1].warnings
                   filename == EslintFilename(out)
                   issues_by_rule == CollectIssues(split(out, "\n"), 1, <<>>)
                   items == SortedByCount(issues_by_rule)
               IN  IF issues_by_rule = <<>>
                   THEN Some(EslintCounts(errors, warnings))
                   ELSE Some(join("\n",
                          <<EslintCounts(errors, warnings)
                              \o (IF Truthy(filename) THEN " in " \o filename[1] ELSE "")>>
                          \o [k \in 1..Len(items) |-> RuleLine(items[k])]))

MaxRows == 4

\* the rules a row can name; "" is a row without a rule id (a parsing error),
\* which the issue pattern does not match
EslintRules == {"semi", "no-var", "@typescript-eslint/no-explicit-any"}
EslintRowKinds == EslintRules \cup {""}

\* the source line the i-th row reports: neither ascending nor descending
RowLineNumber(i) == ((5 * i) % 13) + 1

RowLevel(rule) == IF rule \in {"semi", ""} THEN "error" ELSE "warning"

EslintRowText(rule, i) ==
    "  " \o str(RowLineNumber(i)) \o ":" \o str(i) \o "  " \o RowLevel(rule) \o "  "
        \o (IF rule = "" THEN "Parsing error: ';' expected."
            ELSE "Do not do this  " \o rule)

EslintCommand == <<"npx", "eslint", "src/app.ts">>

\* what eslint prints (stylish format) for one file after --fix
EslintScenarios ==
    [kind : {"run"}, rows : SeqUpTo(EslintRowKinds, MaxRows)]
    \cup [kind : {"timeout", "spawn"}, rows : {<<>>}]

EslintOutput(sc) ==
    LET n == Len(sc.rows)
        e == Cardinality({i \in 1..n : RowLevel(sc.rows[i]) = "error"})
    IN  CASE sc.kind = "run" ->
                IF n = 0 THEN ""
                ELSE "\n/p/src/app.ts\n"
                     \o join("\n", [i \in 1..n |-> EslintRowText(sc.rows[i], i)])
                     \o "\n\n" \o Cross \o " " \o Plural(n, "problem") \o " ("
                     \o Plural(e, "error") \o ", " \o Plural(n - e, "warning") \o ")\n\n"
          [] sc.kind = "timeout" -> TimedOut(EslintCommand).output
          [] sc.kind = "spawn" -> SpawnFailed(EslintCommand).output

InitEslint ==
    /\ HookIdle
    /\ pc = "parse_eslint_output"
    /\ scenario \in EslintScenarios
    /\ output = EslintOutput(scenario)
    /\ exit_code = IF Len(scenario.rows) = 0 /\ scenario.kind = "run" THEN 0 ELSE 1
    /\ result = None

CallEslint ==
    /\ pc = "parse_eslint_output"
    /\ result' = parse_eslint_output(output)
    /\ pc' = "returned"
    /\ UNCHANGED <<hookVars, scenario, output, exit_code>>

NextEslint == CallEslint

SpecEslint == InitEslint /\ [][NextEslint]_vars

\* positions of the rows that name rule
RowsOf(rows, rule) == {i \in 1..Len(rows) : rows[i] = rule}

\* the rule line expected for rule: its count and its line numbers in
\* encounter order
ExpectedRuleLine(rows, rule) ==
    LET idx == Ascending(RowsOf(rows, rule))
    IN  "  - " \o rule \o ": " \o str(Len(idx)) \o Times \o " (lines "
        \o join(", ", [k \in 1..Len(idx) |-> str(RowLineNumber(idx[k]))]) \o ")"

\* rule a is listed before rule b: more occurrences, or as many and seen first
ListedBefore(rows, a, b) ==
    \/ Cardinality(RowsOf(rows, a)) > Cardinality(RowsOf(rows, b))
    \/ /\ Cardinality(RowsOf(rows, a)) = Cardinality(RowsOf(rows, b))
       /\ Min(RowsOf(rows, a)) < Min(RowsOf(rows, b))

\* C5: whenever at least one issue row matches, the rule lines of the report
\* are in descending order of occurrence count, rules of equal count in the
\* order of their first row; every matched row is counted in exactly one rule
\* line (there is one line per rule, and it carries the number of the rule's
\* rows, so the counts sum to the number of matched rows); the line numbers
\* of a rule are in encounter order.
C5_RulesByDescendingCount ==
    (pc = "returned" /\ scenario.kind = "run"
        /\ \E i \in 1..Len(scenario.rows) : scenario.rows[i] # "") =>
        LET rows == scenario.rows
            rules == {r \in EslintRules : RowsOf(rows, r) # {}}
            report == split(result[1], "\n")
            ruleLines == SubSeq(report, 2, Len(report))
        IN  /\ result # None
            /\ Len(ruleLines) = Cardinality(rules)
            /\ \A r \in rules :
                  \E k \in 1..Len(ruleLines) : ruleLines[k] = ExpectedRuleLine(rows, r)
            /\ \A a, b \in rules :
                  \A j, k \in 1..Len(ruleLines) :
                      (/\ ruleLines[j] = ExpectedRuleLine(rows, a)
                       /\ ruleLines[k] = ExpectedRuleLine(rows, b)
                       /\ ListedBefore(rows, a, b)) => j < k

\* a rule seen later with more rows is listed first, two rules with one row
\* each keep their encounter order, and the lines of the first are 11 then 8
C5_Witness ==
    /\ pc = "returned"
    /\ scenario.kind = "run"
    /\ scenario.rows = <<"no-var", "semi", "@typescript-eslint/no-explicit-any", "semi">>
    /\ result = Some("ESLint: 2 error(s), 2 warning(s) in app.ts\n"
                     \o "  - semi: 2x (lines 11, 8)\n"
                     \o "  - no-var: 1x (lines 6)\n"
                     \o "  - @typescript-eslint/no-explicit-any: 1x (lines 3)")

-----------------------------------------------------------------------------
(* typescript-quality-check.py: parse_typescript_output *)

\* r"\((\d+),(\d+)\): error (TS\d+): (.+)$" at position p of s: the groups,
\* or None
TsTailAt(s, p) ==
    LET d1 == RunLen(s, p + 1, Digits)
        d2 == RunLen(s, p + 2 + d1, Digits)
        c == p + 2 + d1 + d2 + Len("): error ")
        d3 == RunLen(s, c + 2, Digits)
        m == c + 2 + d3 + Len(": ")
    IN  IF /\ Ch(s, p) = "("
           /\ d1 >= 1
           /\ Ch(s, p + 1 + d1) = ","
           /\ d2 >= 1
           /\ StartsAt(s, "): error TS", p + 2 + d1 + d2)
           /\ d3 >= 1
           /\ StartsAt(s, ": ", c + 2 + d3)
           /\ m <= Len(s)
        THEN Some([line |-> SubSeq(s, p + 1, p + d1),
                   col |-> SubSeq(s, p + 2 + d1, p + 1 + d1 + d2),
                   code |-> SubSeq(s, c, c + 1 + d3),
                   message |-> strip(From(s, m))])
        ELSE None

\* re.match(error_pattern, line.strip()): the entry appended to errors, or
\* None.  Group 1 is greedy: the match with the last "(" that fits is taken.
TsErrorEntry(line) ==
    LET s == strip(line)
        hits == {p \in 2..Len(s) : TsTailAt(s, p) # None}
    IN  IF hits = {} THEN None
        ELSE LET t == TsTailAt(s, Max(hits))[1]
             IN  Some([filename |-> LastSegment(strip(SubSeq(s, 1, Max(hits) - 1))),
                       line |-> t.line, col |-> t.col, code |-> t.code,
                       message |-> t.message])

\* errors after the loop "for line in output.split('\n')" from line i on
RECURSIVE TsErrors(_, _)
TsErrors(lines, i) ==
    IF i > Len(lines) THEN <<>>
    ELSE TsErrorEntry(lines[i]) \o TsErrors(lines, i + 1)

\* a mutant of TsFilename: the assignment without "if not filename", which
\* keeps the file of the last match
TsFilenameLast(errors) ==
    IF errors = <<>> THEN None ELSE Some(errors[Len(errors)].filename)

\* filename after the loop: "if not filename: filename = ..." keeps the first
\* non-empty base name
TsFilename(errors) ==
    LET hits == {k \in 1..Len(errors) : errors[k].filename # ""}
    IN  IF hits = {} THEN None ELSE Some(errors[Min(hits)].filename)

TsDetailLine(error) ==
    "  - " \o error.filename \o "(" \o error.line \o "," \o error.col \o "): "
        \o error.code \o ": " \o error.message

parse_typescript_output(out, code) ==
    IF code = 0 \/ strip(out) = "" THEN None
    ELSE LET errors == TsErrors(split(out, "\n"), 1)
             filename == TsFilename(errors)
         IN  IF errors = <<>> THEN None
             ELSE Some(join("\n",
                    <<"TypeScript: " \o str(Len(errors)) \o " error(s)"
                        \o (IF Truthy(filename) THEN " in " \o filename[1] ELSE "")>>
                    \o [k \in 1..Len(errors) |-> TsDetailLine(errors[k])]))

MaxTscLines == 4
MaxTscExit == 2

\* a line of tsc's output: an error in the edited file, an error in a file it
\* imports, the indented continuation of a message, an error without a place
TscLineKinds == {"app", "util", "cont", "global"}

TscFile(kind) == IF kind = "app" THEN "src/app.ts" ELSE "src/lib/util.ts"
TscCode(kind) == IF kind = "app" THEN "TS2322" ELSE "TS7006"
TscMessage(kind) ==
    IF kind = "app" THEN "Type 'f(1,2)' is not assignable to type '(a: number) => void'."
    ELSE "Parameter 'x' implicitly has an 'any' type."

\* the source line the i-th output line is about
TscLineNumber(i) == ((7 * i) % 12) + 4

TscLineText(kind, i) ==
    CASE kind \in {"app", "util"} ->
            TscFile(kind) \o "(" \o str(TscLineNumber(i)) \o "," \o str(i) \o "): error "
            \o TscCode(kind) \o ": " \o TscMessage(kind)
      [] kind = "cont" -> "  Type 'string' is not assignable to type 'number'."
      [] kind = "global" -> "error TS18003: No inputs were found in config file."

TscCommand == <<"npx", "tsc", "--noEmit", "src/app.ts">>

TscScenarios ==
    [kind : {"run"}, lines : SeqUpTo(TscLineKinds, MaxTscLines), code : 0..MaxTscExit]
    \cup [kind : {"timeout", "spawn"}, lines : {<<>>}, code : {1}]

TscOutput(sc) ==
    CASE sc.kind = "run" ->
            IF sc.lines = <<>> THEN ""
            ELSE join("\n", [i \in 1..Len(sc.lines) |-> TscLineText(sc.lines[i], i)]) \o "\n"
      [] sc.kind = "timeout" -> TimedOut(TscCommand).output
      [] sc.kind = "spawn" -> SpawnFailed(TscCommand).output

InitTypescript ==
    /\ HookIdle
    /\ pc = "parse_typescript_output"
    /\ scenario \in TscScenarios
    /\ output = TscOutput(scenario)
    /\ exit_code = scenario.code
    /\ result = None

CallTypescript ==
    /\ pc = "parse_typescript_output"
    /\ result' = parse_typescript_output(output, exit_code)
    /\ pc' = "returned"
    /\ UNCHANGED <<hookVars, scenario, output, exit_code>>

NextTypescript == CallTypescript

SpecTypescript == InitTypescript /\ [][NextTypescript]_vars

\* the detail line expected for the error line at position i of the output
ExpectedTsDetail(kind, i) ==
    "  - " \o LastSegment(TscFile(kind)) \o "(" \o str(TscLineNumber(i)) \o ","
        \o str(i) \o "): " \o TscCode(kind) \o ": " \o TscMessage(kind)

\* C7: for a nonzero exit code, parse_typescript_output returns absence when no
\* line matches the error pattern, and otherwise a report whose header count
\* equals the number of detail lines and the number of matching input lines;
\* the detail lines are in input order, one per matching line, each with that
\* line's (line,col) and error code; the header names the file of the first
\* matching line.
C7_HeaderCountsDetailLines ==
    (pc = "returned" /\ exit_code # 0) =>
        LET lines == scenario.lines
            idx == Ascending({i \in 1..Len(lines) : lines[i] \in {"app", "util"}})
        IN  IF idx = <<>> THEN result = None
            ELSE /\ result # None
                 /\ LET report == split(result[1], "\n")
                    IN  /\ report[1] = "TypeScript: " \o str(Len(idx)) \o " error(s) in "
                                       \o LastSegment(TscFile(lines[idx[1]]))
                        /\ Len(report) - 1 = Len(idx)
                        /\ \A k \in 1..Len(idx) :
                              report[k + 1] = ExpectedTsDetail(lines[idx[k]], idx[k])

\* two error lines in different files around a continuation line: a header
\* count of 2, the first file in the header, two detail lines
C7_Witness ==
    /\ pc = "returned"
    /\ exit_code = 2
    /\ scenario.kind = "run"
    /\ scenario.lines = <<"util", "cont", "app">>
    /\ result # None
    /\ split(result[1], "\n")[1] = "TypeScript: 2 error(s) in util.ts"
    /\ Len(split(result[1], "\n")) = 3

-----------------------------------------------------------------------------
(* main() of both hooks *)

\* a Python value held by a local of main(): the text of a str, or the marker
\* of another type
PyStr(s) == [type |-> "str", val |-> s]
PyOther(t) == [type |-> t, val |-> ""]
Unset == PyOther("unset")

\* what the host can write on standard input:
\*   malformed      not JSON
\*   array          []
\*   no_tool_input  {}
\*   null_tool_input {"tool_input": null}
\*   no_file_path   {"tool_input": {}}
\*   int_file_path  {"tool_input": {"file_path": 5}}
\*   path           {"tool_input": {"file_path": "<path>"}}
Paths == {"/p/src/app.ts", "/p/a.py", "/p/notes.md", "/p/src/app.tsv"}

Inputs ==
    [shape : {"malformed", "array", "no_tool_input", "null_tool_input",
              "no_file_path", "int_file_path"}, path : {""}]
    \cup [shape : {"path"}, path : Paths]

FileSystems ==
    [files : {{}, Paths}, node_modules : {{}, {"/p"}, {"/p/src"}}]

\* file_path.endswith(...) of each hook
SupportedExtension(h, path) ==
    IF h = "ts"
    THEN \E ext \in {".ts", ".tsx", ".js", ".jsx"} : EndsWith(path, ext)
    ELSE EndsWith(path, ".py")

\* a mutant of FileExists: the existence check left out
FileExistsAlways(files, path) == TRUE

\* Path(file_path).exists()
FileExists(files, path) == path \in files

\* Path(p).parent for an absolute path
Parent(p) ==
    IF RFind(p, "/") <= 1 THEN "/" ELSE SubSeq(p, 1, RFind(p, "/") - 1)

\* the while/else loop of the TS hook: the nearest ancestor directory that
\* holds node_modules, the root directory itself never being tried
RECURSIVE FindProjectRoot(_, _)
FindProjectRoot(root, node_modules) ==
    IF root = Parent(root) THEN None
    ELSE IF root \in node_modules THEN Some(root)
    ELSE FindProjectRoot(Parent(root), node_modules)

\* str(Path(file_path).relative_to(project_root))
RelativeTo(path, root) == From(path, Len(root) + 2)

\* a mutant of AppendIssue: the report is put first
PrependIssue(list, msg) == IF Truthy(msg) THEN <<msg[1]>> \o list ELSE list

\* if msg: issues.append(msg)
AppendIssue(list, msg) == IF Truthy(msg) THEN Append(list, msg[1]) ELSE list

\* Path(file_path).name
PathName(path) == LastSegment(path)

\* context_message
ContextMessage(path, list) ==
    "Code quality for " \o PathName(path) \o ":\n"
        \o join("\n", [k \in 1..Len(list) |-> "- " \o list[k]])

\* the object handed to json.dumps and printed
HookOutput(context_message) ==
    [hookSpecificOutput |->
        [hookEventName |-> "PostToolUse", additionalContext |-> context_message]]

\* run_command(cmd) when the tool itself ran: one of runs; or a timeout; or a
\* failure to start
run_command(cmd, runs) == runs \cup {TimedOut(cmd), SpawnFailed(cmd)}

Raw(out, code) == [output |-> out, exit_code |-> code]

PrettierRuns ==
    {Raw("src/app.ts 20ms\n", 0),
     Raw("[error] src/app.ts: SyntaxError: Unexpected token (12:4)\n", 2)}

EslintRuns ==
    {Raw(EslintOutput([kind |-> "run", rows |-> rows]), IF rows = <<>> THEN 0 ELSE 1) :
        rows \in {<<>>, <<"semi">>, <<"no-var", "semi", "semi">>}}

TscRuns ==
    {Raw(TscOutput([kind |-> "run", lines |-> ls, code |-> 0]), IF ls = <<>> THEN 0 ELSE 2) :
        ls \in {<<>>, <<"app">>, <<"util", "cont", "app">>}}

RuffRuns ==
    {Raw(RuffOutput(sc), IF sc.kind = "clean" THEN 0 ELSE 1) :
        sc \in {s \in RuffScenarios :
                   /\ s.kind \in {"clean", "summary"}
                   /\ s.fixed + s.remaining \in {0, 2}
                   /\ ~s.diag}}

PyrightRuns ==
    {Raw(PyrightOutput([kind |-> "run", body |-> b]),
         IF CountOf(b, "error") = 0 THEN 0 ELSE 1) :
        b \in {<<>>, <<"warning">>, <<"error", "context", "warning">>}}

BanditRuns ==
    {Raw(BanditOutput(sc), sc.code) :
        sc \in {s \in BanditScenarios :
                   /\ s.kind = "run"
                   /\ s.low = 0 /\ s.medium \in {0, 2} /\ s.high = 0
                   /\ s.listed = (s.medium # 0)
                   /\ s.code = (IF s.medium # 0 THEN 1 ELSE 0)}}

Init ==
    /\ pc = "read_input"
    /\ hook \in {"ts", "py"}
    /\ stdin \in Inputs
    /\ fs \in FileSystems
    /\ file_path = Unset
    /\ project_root = None
    /\ reports = <<>>
    /\ issues = <<>>
    /\ invoked = <<>>
    /\ stdout = <<>>
    /\ stderr = <<>>
    /\ exit_status = None
    /\ scenario = "main"
    /\ output = ""
    /\ exit_code = 0
    /\ result = None

toolVars == <<scenario, output, exit_code, result>>

\* sys.exit(n)
Exit(n) == pc' = "exited" /\ exit_status' = Some(n)

\* an exception nobody catches: the traceback goes to the error stream and
\* the interpreter exits with status 1
Uncaught(exc) == stderr' = Append(stderr, "Traceback: " \o exc) /\ Exit(1)

\* hook_input = json.load(sys.stdin)
ReadInput ==
    /\ pc = "read_input"
    /\ IF stdin.shape = "malformed"
       THEN /\ stderr' = Append(stderr, "Error: Invalid JSON input")
            /\ Exit(1)
       ELSE /\ pc' = "get_file_path"
            /\ UNCHANGED <<stderr, exit_status>>
    /\ UNCHANGED <<hook, stdin, fs, file_path, project_root, reports, issues, invoked,
                   stdout, toolVars>>

\* tool_input = hook_input.get("tool_input", {})
\* file_path = tool_input.get("file_path", "")
GetFilePath ==
    /\ pc = "get_file_path"
    /\ CASE stdin.shape = "array" ->
                Uncaught("AttributeError: 'list' object has no attribute 'get'")
                /\ UNCHANGED file_path
         [] stdin.shape = "null_tool_input" ->
                Uncaught("AttributeError: 'NoneType' object has no attribute 'get'")
                /\ UNCHANGED file_path
         [] stdin.shape \in {"no_tool_input", "no_file_path"} ->
                /\ file_path' = PyStr("")
                /\ pc' = "check_extension"
                /\ UNCHANGED <<stderr, exit_status>>
         [] stdin.shape = "int_file_path" ->
                /\ file_path' = PyOther("int")
                /\ pc' = "check_extension"
                /\ UNCHANGED <<stderr, exit_status>>
         [] stdin.shape = "path" ->
                /\ file_path' = PyStr(stdin.path)
                /\ pc' = "check_extension"
                /\ UNCHANGED <<stderr, exit_status>>
    /\ UNCHANGED <<hook, stdin, fs, project_root, reports, issues, invoked, stdout,
                   toolVars>>

\* if not file_path.endswith(...): sys.exit(0)
CheckExtension ==
    /\ pc = "check_extension"
    /\ IF file_path.type # "str"
       THEN Uncaught("AttributeError: 'int' object has no attribute 'endswith'")
       ELSE IF ~SupportedExtension(hook, file_path.val)
       THEN Exit(0) /\ UNCHANGED stderr
       ELSE pc' = "check_exists" /\ UNCHANGED <<stderr, exit_status>>
    /\ UNCHANGED <<hook, stdin, fs, file_path, project_root, reports, issues, invoked,
                   stdout, toolVars>>

\* if not Path(file_path).exists(): sys.exit(0)
CheckExists ==
    /\ pc = "check_exists"
    /\ IF ~FileExists(fs.files, file_path.val)
       THEN Exit(0)
       ELSE /\ pc' = IF hook = "ts" THEN "find_project_root" ELSE "check_ruff"
            /\ UNCHANGED exit_status
    /\ UNCHANGED <<hook, stdin, fs, file_path, project_root, reports, issues, invoked,
                   stdout, stderr, toolVars>>

\* the search for node_modules (TS hook)
FindRoot ==
    /\ pc = "find_project_root"
    /\ LET found == FindProjectRoot(Parent(file_path.val), fs.node_modules)
       IN  IF found = None
           THEN Exit(0) /\ UNCHANGED project_root
           ELSE /\ project_root' = found
                /\ pc' = "check_prettier"
                /\ UNCHANGED exit_status
    /\ UNCHANGED <<hook, stdin, fs, file_path, reports, issues, invoked, stdout, stderr,
                   toolVars>>

\* msg = check_x(...); if msg: issues.append(msg) -- for a check that runs the
\* commands cmds (the last one's result is parsed) and returns msg
CheckStep(at, next, cmds, raw, msg) ==
    /\ pc = at
    /\ invoked' = invoked \o cmds
    /\ output' = raw.output
    /\ exit_code' = raw.exit_code
    /\ result' = msg
    /\ reports' = Append(reports, msg)
    /\ issues' = AppendIssue(issues, msg)
    /\ pc' = next
    /\ UNCHANGED <<hook, stdin, fs, file_path, project_root, stdout, stderr,
                   exit_status, scenario>>

CheckPrettier ==
    /\ pc = "check_prettier"
    /\ LET cmd == <<"npx", "prettier", "--write",
                    RelativeTo(file_path.val, project_root[1])>>
       IN  \E raw \in run_command(cmd, PrettierRuns) :
               CheckStep("check_prettier", "check_eslint", <<cmd>>, raw,
                         parse_prettier_output(raw.output, raw.exit_code))

CheckEslint ==
    /\ pc = "check_eslint"
    /\ LET rel == RelativeTo(file_path.val, project_root[1])
           fix == <<"npx", "eslint", "--fix", rel>>
           cmd == <<"npx", "eslint", rel>>
       IN  \E raw \in run_command(cmd, EslintRuns) :
               CheckStep("check_eslint", "check_typescript", <<fix, cmd>>, raw,
                         parse_eslint_output(raw.output))

CheckTypescript ==
    /\ pc = "check_typescript"
    /\ LET cmd == <<"npx", "tsc", "--noEmit", RelativeTo(file_path.val, project_root[1])>>
       IN  \E raw \in run_command(cmd, TscRuns) :
               CheckStep("check_typescript", "report", <<cmd>>, raw,
                         parse_typescript_output(raw.output, raw.exit_code))

CheckRuff ==
    /\ pc = "check_ruff"
    /\ LET cmd == <<"uv", "run", "ruff", "check", "--fix", file_path.val>>
       IN  \E raw \in run_command(cmd, RuffRuns) :
               CheckStep("check_ruff", "check_basedpyright", <<cmd>>, raw,
                         check_ruff_parse(raw.output))

CheckBasedpyright ==
    /\ pc = "check_basedpyright"
    /\ LET cmd == <<"uv", "run", "basedpyright", file_path.val>>
       IN  \E raw \in run_command(cmd, PyrightRuns) :
               CheckStep("check_basedpyright", "check_bandit", <<cmd>>, raw,
                         check_basedpyright_parse(raw.output))

CheckBandit ==
    /\ pc = "check_bandit"
    /\ LET cmd == <<"uv", "run", "bandit", "-q", file_path.val>>
       IN  \E raw \in run_command(cmd, BanditRuns) :
               CheckStep("check_bandit", "report", <<cmd>>, raw,
                         check_bandit_parse(raw.output, raw.exit_code))

\* if not issues: sys.exit(0); print(json.dumps(output)); sys.exit(0)
Report ==
    /\ pc = "report"
    /\ stdout' = IF issues = <<>> THEN stdout
                 ELSE Append(stdout, HookOutput(ContextMessage(file_path.val, issues)))
    /\ Exit(0)
    /\ UNCHANGED <<hook, stdin, fs, file_path, project_root, reports, issues, invoked,
                   stderr, toolVars>>

Next ==
    \/ ReadInput
    \/ GetFilePath
    \/ CheckExtension
    \/ CheckExists
    \/ FindRoot
    \/ CheckPrettier
    \/ CheckEslint
    \/ CheckTypescript
    \/ CheckRuff
    \/ CheckBasedpyright
    \/ CheckBandit
    \/ Report

Spec == Init /\ [][Next]_vars

-----------------------------------------------------------------------------
(* Properties of main() *)

\* the edited file is one the hook handles, and it exists
Applicable ==
    /\ file_path.type = "str"
    /\ IF hook = "ts"
       THEN \E ext \in {".ts", ".tsx", ".js", ".jsx"} : EndsWith(file_path.val, ext)
       ELSE EndsWith(file_path.val, ".py")
    /\ file_path.val \in fs.files

\* the tool each invoked command runs
ToolOf(cmd) == IF cmd[1] = "npx" THEN cmd[2] ELSE cmd[3]

\* C1: for a supported existing file, one JSON message is written to standard
\* output if and only if at least one tool of the pipeline returned a
\* non-absent report; its additionalContext is the header naming the file
\* followed by the non-absent reports, each prefixed with "- ", in the fixed
\* pipeline order, none dropped, duplicated or reordered.
C1_MessageIffReport ==
    (pc = "exited" /\ Applicable) =>
        LET present == SelectSeq(reports, LAMBDA r : r # None)
            name == IF hook = "ts" THEN "app.ts" ELSE "a.py"
        IN  /\ Len(stdout) = IF present = <<>> THEN 0 ELSE 1
            /\ present # <<>> =>
                  stdout[1].hookSpecificOutput.additionalContext =
                      "Code quality for " \o name \o ":\n"
                      \o join("\n", [k \in 1..Len(present) |-> "- " \o present[k][1]])
            /\ reports # <<>> =>
                  /\ Len(reports) = 3
                  /\ [k \in 1..Len(invoked) |-> ToolOf(invoked[k])] =
                        IF hook = "ts" THEN <<"prettier", "eslint", "eslint", "tsc">>
                        ELSE <<"ruff", "basedpyright", "bandit">>

\* the first tool returned absence, the other two a report each, and one
\* message with both was written
C1_Witness ==
    /\ pc = "exited"
    /\ Applicable
    /\ Len(reports) = 3
    /\ reports[1] = None /\ reports[2] # None /\ reports[3] # None
    /\ Len(stdout) = 1
    /\ issues = <<reports[2][1], reports[3][1]>>

\* C2: a hook process exits with a nonzero status if and only if its standard
\* input is malformed JSON (an error then goes to the error stream and nothing
\* to standard output); in every other run it terminates with exit status 0.
C2_NonzeroIffMalformed ==
    pc = "exited" =>
        /\ exit_status # Some(0) <=> stdin.shape = "malformed"
        /\ stdin.shape = "malformed" => (stderr # <<>> /\ stdout = <<>>)

\* C8: when the edited file path does not end in one of the hook's extensions,
\* or the target file does not exist, the hook terminates with exit status 0
\* having invoked no external tool and written nothing to standard output;
\* tools are invoked only after both checks pass.
C8_SilentWhenNotApplicable ==
    /\ (pc = "exited" /\ file_path.type = "str" /\ ~Applicable) =>
          (exit_status = Some(0) /\ invoked = <<>> /\ stdout = <<>>)
    /\ invoked # <<>> => Applicable

\* a file with the hook's extension that does not exist: silent exit
C8_Witness ==
    /\ pc = "exited"
    /\ file_path = PyStr(IF hook = "ts" THEN "/p/src/app.ts" ELSE "/p/a.py")
    /\ fs.files = {}
    /\ exit_status = Some(0)
    /\ invoked = <<>>

====
